---- MODULE Spec2Model ----
(***************************************************************************)
(* A model of animal_helpers.py: the batch partitioner (create_batches),   *)
(* the inference executor (process_batch), the directory scanner           *)
(* (list_files_recursively) and the symlink synchronizer                   *)
(* (populate_with_symlinks).  Each function has its own specification; a   *)
(* specification leaves the variables of the other functions untouched.    *)
(***************************************************************************)
EXTENDS Integers, Sequences, FiniteSets, TLC

VARIABLES
    \* create_batches
    data,           \* the manifest: a sequence of row ids
    batch_size,     \* the batch_size argument
    i,              \* the loop variable of range(0, len(data), batch_size)
    yielded,        \* the batches the generator has yielded so far
    gen,            \* "created" | "running" | "exhausted" | "raised"
    \* process_batch
    batch,          \* the batch: a sequence of manifest rows
    readable,       \* the image files cv2.imread can load
    boxes,          \* file -> number of boxes the model returns for it
    row,            \* position of the for loop in the batch (1-based)
    batch_results,  \* the list of per-image result tables
    printed,        \* the lines print() has written
    pb_pc,          \* "loop" | "returned"
    pb_ret,         \* the return value: [kind |-> "None"] or a table
    \* list_files_recursively
    tree,           \* directory -> "missing" | "unreadable" | "ok"
    dir_files,      \* directory -> the names of the regular files in it
    folder_path,    \* the folder_path argument
    walk,           \* the directories os.walk has still to visit
    files_list,     \* the result list
    scan_pc,        \* "walking" | "returned" | "raised"
    \* populate_with_symlinks
    exists,         \* the source paths that exist
    dest,           \* base name -> the destination directory's entry
    dest_dir,       \* whether the destination directory exists
    file_list,      \* the file_list argument of the current call
    pos,            \* position of the for loop in file_list (1-based)
    links_created,  \* the counter of the current call
    sync_pc,        \* "idle" | "loop" | "done" | "raised"
    sync_ret,       \* the value the call returned: <<>> is None, <<n>> is n
    sync_out,       \* the count the call printed: <<>> before the print
    dest0,          \* history: dest when the current call started
    sync_only       \* history: only populate_with_symlinks has written to dest

batchVars == <<data, batch_size, i, yielded, gen>>
procVars  == <<batch, readable, boxes, row, batch_results, printed, pb_pc, pb_ret>>
scanVars  == <<tree, dir_files, folder_path, walk, files_list, scan_pc>>
syncVars  == <<exists, dest, dest_dir, file_list, pos, links_created, sync_pc,
               sync_ret, sync_out, dest0, sync_only>>
vars == <<batchVars, procVars, scanVars, syncVars>>

\* ------------------------------------------------------------- bounds
MaxRows      == 5    \* manifests of 0..MaxRows rows
MaxBatchSize == 3    \* batch_size in -MaxBatchSize..MaxBatchSize
MaxBatchLen  == 3    \* batches of 0..MaxBatchLen rows
MaxBoxes     == 2    \* the model returns 0..MaxBoxes boxes for an image
MaxFileList  == 2    \* file lists of 0..MaxFileList entries

\* ------------------------------------------------------------- helpers
Min(a, b) == IF a < b THEN a ELSE b

RECURSIVE Flatten(_)
Flatten(ss) == IF ss = <<>> THEN <<>> ELSE Head(ss) \o Flatten(Tail(ss))

SeqsUpTo(S, n) == UNION {[1..k -> S] : k \in 0..n}

\* The idle values of each function's variables.
BatchIdle ==
    /\ data = <<>> /\ batch_size = 1 /\ i = 0 /\ yielded = <<>> /\ gen = "exhausted"
ProcIdle ==
    /\ batch = <<>> /\ readable = {} /\ boxes = <<>> /\ row = 1
    /\ batch_results = <<>> /\ printed = <<>> /\ pb_pc = "returned"
    /\ pb_ret = [kind |-> "None", rows |-> <<>>]
ScanIdle ==
    /\ tree = <<>> /\ dir_files = <<>> /\ folder_path = "" /\ walk = <<>>
    /\ files_list = <<>> /\ scan_pc = "returned"
SyncIdle ==
    /\ exists = {} /\ dest = <<>> /\ dest_dir = FALSE /\ file_list = <<>> /\ pos = 1
    /\ links_created = 0 /\ sync_pc = "idle" /\ sync_ret = <<>> /\ sync_out = <<>>
    /\ dest0 = <<>> /\ sync_only = TRUE

\* =================================================== create_batches
\* range(start, stop, step) of Python, as the sequence of its values; the
\* caller handles step = 0, for which range raises ValueError.
RECURSIVE PyRange(_, _, _)
PyRange(start, stop, step) ==
    IF (step > 0 /\ start < stop) \/ (step < 0 /\ start > stop)
    THEN <<start>> \o PyRange(start + step, stop, step)
    ELSE <<>>

\* data.iloc[lo:hi] for 0 <= lo <= hi: positions are 0-based, hi is exclusive
\* and the slice is clipped to the table.
ILoc(d, lo, hi) == SubSeq(d, lo + 1, Min(hi, Len(d)))

\* (mutant) the slice stops one row early.
BatchAtShort(d, k, size) == ILoc(d, k, k + size - 1)

\* The batch the generator yields when the loop variable is k.
BatchAt(d, k, size) == ILoc(d, k, k + size)

\* The loop variable after the value k.
NextIndex(k, size) == k + size

BatchInit ==
    /\ \E n \in 0..MaxRows : data = [k \in 1..n |-> k]
    /\ batch_size \in (0 - MaxBatchSize)..MaxBatchSize
    /\ i = 0
    /\ yielded = <<>>
    /\ gen = "created"
    /\ ProcIdle /\ ScanIdle /\ SyncIdle

\* The first next(): the body runs up to range(), which raises ValueError
\* when batch_size = 0.
RangeRaises ==
    /\ gen = "created"
    /\ batch_size = 0
    /\ gen' = "raised"
    /\ UNCHANGED <<data, batch_size, i, yielded, procVars, scanVars, syncVars>>

StartLoop ==
    /\ gen = "created"
    /\ batch_size # 0
    /\ gen' = "running"
    /\ UNCHANGED <<data, batch_size, i, yielded, procVars, scanVars, syncVars>>

\* One iteration of the for loop: the generator yields a slice.
YieldBatch ==
    /\ gen = "running"
    /\ PyRange(i, Len(data), batch_size) # <<>>
    /\ yielded' = Append(yielded, BatchAt(data, i, batch_size))
    /\ i' = NextIndex(i, batch_size)
    /\ UNCHANGED <<data, batch_size, gen, procVars, scanVars, syncVars>>

\* The range is used up: StopIteration.
Exhaust ==
    /\ gen = "running"
    /\ PyRange(i, Len(data), batch_size) = <<>>
    /\ gen' = "exhausted"
    /\ UNCHANGED <<data, batch_size, i, yielded, procVars, scanVars, syncVars>>

BatchNext == RangeRaises \/ StartLoop \/ YieldBatch \/ Exhaust

SpecBatches == BatchInit /\ [][BatchNext]_vars

CeilDiv(n, b) == (n + b - 1) \div b

\* C1: for a manifest of N rows and a batch size B > 0, the fully consumed
\* generator has yielded ceil(N/B) batches, batch k is the contiguous slice
\* of rows (k-1)*B+1 .. min(k*B, N), the batches concatenated in yield order
\* are the manifest, and every batch but the last has exactly B rows (the
\* last has 1..B).
C1_Partition ==
    (gen = "exhausted" /\ batch_size > 0) =>
        /\ Len(yielded) = CeilDiv(Len(data), batch_size)
        /\ Flatten(yielded) = data
        /\ \A k \in 1..Len(yielded) :
              /\ yielded[k] = SubSeq(data, (k - 1) * batch_size + 1,
                                     Min(k * batch_size, Len(data)))
              /\ k < Len(yielded) => Len(yielded[k]) = batch_size
              /\ Len(yielded[k]) \in 1..batch_size

\* A manifest whose last batch is short: 5 rows in batches of 2.
C1_Witness ==
    /\ gen = "exhausted" /\ batch_size = 2 /\ Len(data) = 5
    /\ Len(yielded) = 3 /\ Len(yielded[3]) = 1

\* C9 (as stated): for every batch_size <= 0 the generator, once it has
\* ended, has ended by raising an error and has yielded no batch; it never
\* ends normally with an empty sequence of batches.
C9_NonPositiveFails ==
    (batch_size <= 0 /\ gen \in {"exhausted", "raised"}) =>
        (gen = "raised" /\ yielded = <<>>)

\* =================================================== process_batch
\* The manifest rows the batches are made of.  Two rows name the same image
\* with different labels, two rows carry the same label for different images.
ManifestRows ==
    { [image_path_rel |-> "x.jpg", class |-> 7, type |-> "lion"],
      [image_path_rel |-> "y.jpg", class |-> 8, type |-> "zebra"],
      [image_path_rel |-> "x.jpg", class |-> 8, type |-> "zebra"] }

ImageFiles == {r.image_path_rel : r \in ManifestRows}

image_folder == "images"

\* os.path.join(image_folder, file)
JoinPath(folder, file) == <<folder, file>>

\* cv2.imread(image_path): the image, or None when it cannot be loaded.
ImRead(path) == IF path[2] \in readable THEN <<"image", path[2]>> ELSE <<>>

\* model(image).pandas().xywhn[0]: one row per box, with the model's own
\* class and name.  src_row is history: the batch position of the row whose
\* image was given to the model.
ModelResults(image, k) ==
    [b \in 1..boxes[image[2]] |->
        [box |-> b, class |-> 2, name |-> "animal", src_row |-> k]]

\* (mutant) an empty result table is appended too.
KeepResultsAlways(results) == TRUE

\* if not results.empty
KeepResults(results) == results # <<>>

\* (mutant) only the file name is stamped; class and name stay the model's.
StampFileOnly(results, r) ==
    [n \in 1..Len(results) |->
        [box |-> results[n].box, src_row |-> results[n].src_row,
         class |-> results[n].class, name |-> results[n].name,
         file_name |-> r.image_path_rel]]

\* results['class'] = class_id; results['name'] = type_name;
\* results['file_name'] = file
Stamp(results, r) ==
    [n \in 1..Len(results) |->
        [box |-> results[n].box, src_row |-> results[n].src_row,
         class |-> r.class, name |-> r.type,
         file_name |-> r.image_path_rel]]

\* pd.concat(batch_results, ignore_index=True)
Concat(tables) == Flatten(tables)

ProcInit ==
    /\ batch \in SeqsUpTo(ManifestRows, MaxBatchLen)
    /\ readable \in SUBSET ImageFiles
    /\ boxes \in [ImageFiles -> 0..MaxBoxes]
    /\ row = 1
    /\ batch_results = <<>>
    /\ printed = <<>>
    /\ pb_pc = "loop"
    /\ pb_ret = [kind |-> "None", rows |-> <<>>]
    /\ BatchIdle /\ ScanIdle /\ SyncIdle

RowPath == JoinPath(image_folder, batch[row].image_path_rel)

\* (mutant) a failed load ends the call.
RowLoadFailsAbort ==
    /\ pb_pc = "loop" /\ row <= Len(batch)
    /\ ImRead(RowPath) = <<>>
    /\ pb_pc' = "returned"
    /\ pb_ret' = [kind |-> "None", rows |-> <<>>]
    /\ UNCHANGED <<batch, readable, boxes, row, batch_results, printed,
                   batchVars, scanVars, syncVars>>

\* An iteration whose image is None: print the diagnostic and continue.
RowLoadFails ==
    /\ pb_pc = "loop" /\ row <= Len(batch)
    /\ ImRead(RowPath) = <<>>
    /\ printed' = Append(printed, <<"Failed to load image", RowPath>>)
    /\ row' = row + 1
    /\ UNCHANGED <<batch, readable, boxes, batch_results, pb_pc, pb_ret,
                   batchVars, scanVars, syncVars>>

\* An iteration whose result table is kept: stamp it and append it.
RowKept ==
    /\ pb_pc = "loop" /\ row <= Len(batch)
    /\ ImRead(RowPath) # <<>>
    /\ LET results == ModelResults(ImRead(RowPath), row)
       IN  /\ KeepResults(results)
           /\ batch_results' = Append(batch_results, Stamp(results, batch[row]))
    /\ row' = row + 1
    /\ UNCHANGED <<batch, readable, boxes, printed, pb_pc, pb_ret,
                   batchVars, scanVars, syncVars>>

\* An iteration whose result table is empty: nothing is appended.
RowDropped ==
    /\ pb_pc = "loop" /\ row <= Len(batch)
    /\ ImRead(RowPath) # <<>>
    /\ ~KeepResults(ModelResults(ImRead(RowPath), row))
    /\ row' = row + 1
    /\ UNCHANGED <<batch, readable, boxes, batch_results, printed, pb_pc, pb_ret,
                   batchVars, scanVars, syncVars>>

\* After the loop: print, then return the concatenation or None.
ReturnBatch ==
    /\ pb_pc = "loop" /\ row > Len(batch)
    /\ printed' = Append(printed, <<"batch complete returning batch">>)
    /\ pb_ret' = IF batch_results # <<>>
                 THEN [kind |-> "table", rows |-> Concat(batch_results)]
                 ELSE [kind |-> "None", rows |-> <<>>]
    /\ pb_pc' = "returned"
    /\ UNCHANGED <<batch, readable, boxes, row, batch_results,
                   batchVars, scanVars, syncVars>>

ProcNext == RowLoadFails \/ RowKept \/ RowDropped \/ ReturnBatch

SpecProcess == ProcInit /\ [][ProcNext]_vars

Loads(k) == batch[k].image_path_rel \in readable
BoxCount(k) == boxes[batch[k].image_path_rel]

\* The (row, box) pairs of the rows that load, in manifest order.
RECURSIVE Surviving(_)
Surviving(k) ==
    IF k > Len(batch) THEN <<>>
    ELSE (IF Loads(k) THEN [b \in 1..BoxCount(k) |-> <<k, b>>] ELSE <<>>)
         \o Surviving(k + 1)

\* The diagnostics of the rows that fail to load, in manifest order.
RECURSIVE Failing(_)
Failing(k) ==
    IF k > Len(batch) THEN <<>>
    ELSE (IF Loads(k) THEN <<>>
          ELSE << <<"Failed to load image",
                    <<image_folder, batch[k].image_path_rel>> >> >>)
         \o Failing(k + 1)

\* C2: whatever rows fail to load, process_batch returns; it has printed one
\* diagnostic per failing row, in order, before the completion line; and
\* the boxes of the returned table are exactly the boxes of the rows that
\* loaded, in manifest row order.
C2_FailureIsolation ==
    pb_pc = "returned" =>
        /\ printed = Failing(1) \o << <<"batch complete returning batch">> >>
        /\ [n \in 1..Len(pb_ret.rows) |->
               <<pb_ret.rows[n].src_row, pb_ret.rows[n].box>>] = Surviving(1)

\* A batch of three rows whose middle row fails to load while the first and
\* the third are in the result.
C2_Witness ==
    /\ pb_pc = "returned" /\ Len(batch) = 3
    /\ ~Loads(2) /\ Loads(1) /\ Loads(3)
    /\ BoxCount(1) >= 1 /\ BoxCount(3) >= 1
    /\ {pb_ret.rows[n].src_row : n \in 1..Len(pb_ret.rows)} = {1, 3}

\* C3: process_batch returns None exactly when every row failed to load or
\* had no box; otherwise it returns a table of at least one row; and a row
\* with no box has no row in the table.
C3_NoneIffNothing ==
    pb_pc = "returned" =>
        /\ pb_ret.kind = "None" <=>
              \A k \in 1..Len(batch) : ~Loads(k) \/ BoxCount(k) = 0
        /\ pb_ret.kind = "table" => Len(pb_ret.rows) >= 1
        /\ \A k \in 1..Len(batch) :
              BoxCount(k) = 0 =>
                  \A n \in 1..Len(pb_ret.rows) : pb_ret.rows[n].src_row # k

\* A batch whose only row loads and has no box: the result is None.
C3_Witness ==
    /\ pb_pc = "returned" /\ Len(batch) = 1
    /\ Loads(1) /\ BoxCount(1) = 0
    /\ pb_ret.kind = "None"

\* C4: every row of the returned table has the class, type and
\* image_path_rel of the manifest row whose image produced it.
C4_LabelOverride ==
    pb_pc = "returned" =>
        \A n \in 1..Len(pb_ret.rows) :
            LET d == pb_ret.rows[n]
                m == batch[d.src_row]
            IN  /\ d.class = m.class
                /\ d.name = m.type
                /\ d.file_name = m.image_path_rel

\* A table with rows of two manifest rows that name the same image with
\* different labels.
C4_Witness ==
    /\ pb_pc = "returned" /\ pb_ret.kind = "table"
    /\ \E n1, n2 \in 1..Len(pb_ret.rows) :
          /\ pb_ret.rows[n1].file_name = pb_ret.rows[n2].file_name
          /\ pb_ret.rows[n1].class = 7 /\ pb_ret.rows[n1].name = "lion"
          /\ pb_ret.rows[n2].class = 8 /\ pb_ret.rows[n2].name = "zebra"

\* =================================================== list_files_recursively
\* A path is the sequence of its components; an absolute path starts with "/".
cwd == <<"/">>

\* os.path.abspath(path)
AbsPath(path) == IF path # <<>> /\ Head(path) = "/" THEN path ELSE cwd \o path

\* os.path.join(root, name)
Join(root, name) == Append(root, name)

\* The directories and file names of the file system the scanner walks.
ScanDirs  == { <<"/", "r">>, <<"/", "r", "s">>, <<"/", "r", "t">> }
DirNames  == {"s", "t"}
FileNames == {"a.jpg", "b.jpg"}

Parent(d) == SubSeq(d, 1, Len(d) - 1)

Perms(S) == {f \in [1..Cardinality(S) -> S] : \A x \in S : \E k \in DOMAIN f : f[k] = x}

\* "missing", "unreadable" or "ok"
Status(path) ==
    IF AbsPath(path) \in DOMAIN tree THEN tree[AbsPath(path)] ELSE "missing"

\* The subdirectories scandir(top) lists.
SubDirs(top) == {Join(top, n) : n \in {m \in DirNames : Status(Join(top, m)) # "missing"}}

ScanInit ==
    /\ tree \in [ScanDirs -> {"missing", "unreadable", "ok"}]
    /\ \A d \in ScanDirs :
          (Parent(d) \in ScanDirs /\ tree[Parent(d)] = "missing") => tree[d] = "missing"
    /\ dir_files \in [ScanDirs -> SUBSET FileNames]
    /\ \A d \in ScanDirs : tree[d] = "missing" => dir_files[d] = {}
    /\ folder_path \in { <<"/", "r">>, <<"r">>, <<"/", "r", "s">> }
    /\ walk = <<folder_path>>
    /\ files_list = <<>>
    /\ scan_pc = "walking"
    /\ BatchIdle /\ ProcIdle /\ SyncIdle

\* os.walk reaches a directory scandir cannot list (missing or unreadable):
\* with onerror=None the error is dropped and nothing is yielded for it.
WalkSkip ==
    /\ scan_pc = "walking" /\ walk # <<>>
    /\ Status(Head(walk)) # "ok"
    /\ walk' = Tail(walk)
    /\ UNCHANGED <<tree, dir_files, folder_path, files_list, scan_pc,
                   batchVars, procVars, syncVars>>

\* os.walk yields (root, dirs, files) for a directory it can list: the loop
\* body appends the absolute path of each file, and the walk goes on into
\* the subdirectories.  The order of the listing is the file system's.
WalkVisit ==
    /\ scan_pc = "walking" /\ walk # <<>>
    /\ Status(Head(walk)) = "ok"
    /\ LET root == Head(walk)
       IN  /\ \E files \in Perms(dir_files[AbsPath(root)]) :
                 files_list' = files_list \o
                     [k \in DOMAIN files |-> AbsPath(Join(root, files[k]))]
           /\ \E dirs \in Perms(SubDirs(root)) : walk' = dirs \o Tail(walk)
    /\ UNCHANGED <<tree, dir_files, folder_path, scan_pc,
                   batchVars, procVars, syncVars>>

\* return files_list
ReturnFiles ==
    /\ scan_pc = "walking" /\ walk = <<>>
    /\ scan_pc' = "returned"
    /\ UNCHANGED <<tree, dir_files, folder_path, walk, files_list,
                   batchVars, procVars, syncVars>>

ScanNext == WalkSkip \/ WalkVisit \/ ReturnFiles

SpecScan == ScanInit /\ [][ScanNext]_vars

\* C10 (as stated): when the root does not exist or is unreadable the scan
\* ends by raising an error; it never returns a list for such a root.
C10_MissingRootFails ==
    (scan_pc # "walking" /\ Status(folder_path) \in {"missing", "unreadable"}) =>
        scan_pc = "raised"

\* =================================================== populate_with_symlinks
\* The source files a file list can name, as absolute paths, and the entries
\* a file list can hold: the absolute paths and one relative spelling.
SourcePaths ==
    { <<"/", "old", "a.jpg">>, <<"/", "new", "a.jpg">>, <<"/", "new", "b.jpg">> }
FileRefs == SourcePaths \cup { <<"new", "a.jpg">> }

\* os.path.basename(path)
Basename(path) == path[Len(path)]

BaseNames == {Basename(path) : path \in SourcePaths}

\* The entries of the destination directory.
Absent     == [kind |-> "absent", target |-> <<>>]
RealFile   == [kind |-> "file", target |-> <<>>]
Directory  == [kind |-> "dir", target |-> <<>>]
Link(path) == [kind |-> "link", target |-> path]
Raised     == [kind |-> "raised", target |-> <<>>]
Entries    == {Absent, RealFile, Directory} \cup {Link(path) : path \in SourcePaths}

\* (mutant) every source is taken to exist.
SourceExistsAlways(target) == TRUE

\* os.path.exists(target_file): the system resolves the path against cwd.
SourceExists(target) == AbsPath(target) \in exists

\* (mutant) the path is used as given, not made absolute.
LinkTargetAsGiven(name) == name

\* target_file = os.path.abspath(file_name)
LinkTarget(name) == AbsPath(name)

\* os.path.exists(destination_file) or os.path.islink(destination_file):
\* exists follows a link, islink does not.
NeedsRemove(e) ==
    \/ e.kind \in {"file", "dir"}
    \/ e.kind = "link" /\ e.target \in exists
    \/ e.kind = "link"

\* (mutant) an entry that is already there is left in place.
EntryAfterKeep(e, target) == IF e.kind = "absent" THEN Link(target) ELSE e

\* The entry after lines 111-115, or Raised: os.remove raises on a
\* directory, os.symlink raises when the name is still taken.
EntryAfter(e, target) ==
    IF NeedsRemove(e)
    THEN IF e.kind = "dir" THEN Raised ELSE Link(target)
    ELSE IF e.kind = "absent" THEN Link(target) ELSE Raised

SyncInit ==
    /\ exists \in SUBSET SourcePaths
    /\ dest_dir \in BOOLEAN
    /\ dest \in [BaseNames -> Entries]
    /\ ~dest_dir => \A b \in BaseNames : dest[b] = Absent
    /\ sync_only = (\A b \in BaseNames : dest[b] = Absent)
    /\ dest0 = dest
    /\ file_list = <<>>
    /\ pos = 1
    /\ links_created = 0
    /\ sync_pc = "idle"
    /\ sync_ret = <<>>
    /\ sync_out = <<>>
    /\ BatchIdle /\ ProcIdle /\ ScanIdle

\* A call: lines 94-101.  The destination directory is created if absent.
SyncCall ==
    /\ sync_pc # "loop"
    /\ \E fl \in SeqsUpTo(FileRefs, MaxFileList) : file_list' = fl
    /\ links_created' = 0
    /\ dest_dir' = TRUE
    /\ pos' = 1
    /\ dest0' = dest
    /\ sync_ret' = <<>>
    /\ sync_out' = <<>>
    /\ sync_pc' = "loop"
    /\ UNCHANGED <<exists, dest, sync_only, batchVars, procVars, scanVars>>

Target == LinkTarget(file_list[pos])
DestinationName == Basename(Target)

\* An iteration whose source does not exist: nothing is done.
SyncSkip ==
    /\ sync_pc = "loop" /\ pos <= Len(file_list)
    /\ ~SourceExists(Target)
    /\ pos' = pos + 1
    /\ UNCHANGED <<exists, dest, dest_dir, file_list, links_created, sync_pc,
                   sync_ret, sync_out, dest0, sync_only,
                   batchVars, procVars, scanVars>>

\* An iteration whose source exists: remove the entry, link, count.
SyncLink ==
    /\ sync_pc = "loop" /\ pos <= Len(file_list)
    /\ SourceExists(Target)
    /\ EntryAfter(dest[DestinationName], Target) # Raised
    /\ dest' = [dest EXCEPT ![DestinationName] = EntryAfter(@, Target)]
    /\ links_created' = links_created + 1
    /\ pos' = pos + 1
    /\ UNCHANGED <<exists, dest_dir, file_list, sync_pc, sync_ret, sync_out,
                   dest0, sync_only, batchVars, procVars, scanVars>>

\* An iteration whose os.remove or os.symlink raises: the call ends.
SyncRaise ==
    /\ sync_pc = "loop" /\ pos <= Len(file_list)
    /\ SourceExists(Target)
    /\ EntryAfter(dest[DestinationName], Target) = Raised
    /\ sync_pc' = "raised"
    /\ UNCHANGED <<exists, dest, dest_dir, file_list, pos, links_created,
                   sync_ret, sync_out, dest0, sync_only,
                   batchVars, procVars, scanVars>>

\* After the loop: the count is printed; the function ends without a
\* return statement, so the call returns None.
SyncFinish ==
    /\ sync_pc = "loop" /\ pos > Len(file_list)
    /\ sync_out' = <<links_created>>
    /\ sync_ret' = <<>>
    /\ sync_pc' = "done"
    /\ UNCHANGED <<exists, dest, dest_dir, file_list, pos, links_created,
                   dest0, sync_only, batchVars, procVars, scanVars>>

\* Between calls a source file appears or goes away.
SourceChanges ==
    /\ sync_pc # "loop"
    /\ \E path \in SourcePaths :
          exists' = IF path \in exists THEN exists \ {path} ELSE exists \cup {path}
    /\ sync_pc' = "idle"
    /\ UNCHANGED <<dest, dest_dir, file_list, pos, links_created, sync_ret,
                   sync_out, dest0, sync_only, batchVars, procVars, scanVars>>

SyncNext ==
    SyncCall \/ SyncSkip \/ SyncLink \/ SyncRaise \/ SyncFinish \/ SourceChanges

SpecSync == SyncInit /\ [][SyncNext]_vars

\* The sources of the current file list, as absolute paths.
Members == {AbsPath(file_list[k]) : k \in 1..Len(file_list)}

\* The members with base name b whose source exists.
Live(b) == {t \in Members : Basename(t) = b /\ t \in exists}

\* The last entry of the file list that is in Live(b).
LastLive(b) ==
    LET ks == {k \in 1..Len(file_list) : AbsPath(file_list[k]) \in Live(b)}
    IN  AbsPath(file_list[CHOOSE k \in ks : \A j \in ks : j <= k])

\* The number of entries of the file list whose source exists.
Attempted == Cardinality({k \in 1..Len(file_list) : AbsPath(file_list[k]) \in exists})

\* C5: after a completed call, for every file of the list whose source
\* exists and whose base name no other file of the list has, the destination
\* entry of that name is a symbolic link to the absolute source path,
\* whatever the entry was before the call.
C5_StaleReplaced ==
    sync_pc = "done" =>
        \A t \in Members :
            (t \in exists /\ \A u \in Members : Basename(u) = Basename(t) => u = t)
                => dest[Basename(t)] = Link(t)

\* A call that replaced a broken link (a.jpg, to the missing /old/a.jpg) and
\* a real file (b.jpg), one of them named by a relative path.
C5_Witness ==
    /\ sync_pc = "done"
    /\ dest0["a.jpg"] = Link(<<"/", "old", "a.jpg">>)
    /\ <<"/", "old", "a.jpg">> \notin exists
    /\ dest0["b.jpg"] = RealFile
    /\ file_list = << <<"new", "a.jpg">>, <<"/", "new", "b.jpg">> >>
    /\ dest["a.jpg"] = Link(<<"/", "new", "a.jpg">>)
    /\ dest["b.jpg"] = Link(<<"/", "new", "b.jpg">>)

\* C6 (as stated): after a completed call on a destination only sync calls
\* have written to, the destination holds a link for each member of the
\* call's list whose source exists and no other entry.
C6_OnlyCurrentSet ==
    (sync_pc = "done" /\ sync_only) =>
        \A b \in BaseNames :
            IF Live(b) # {}
            THEN \E t \in Live(b) : dest[b] = Link(t)
            ELSE dest[b] = Absent

\* C6 (amended): after a completed call, the entry of each base name that a
\* member of the list with an existing source has is a link to the last such
\* member of the list; the entry of every other base name is what it was
\* before the call.
C6_SameNameOnly ==
    sync_pc = "done" =>
        \A b \in BaseNames :
            IF Live(b) # {}
            THEN dest[b] = Link(LastLive(b))
            ELSE dest[b] = dest0[b]

\* On a destination only sync calls have written to: a stale a.jpg replaced
\* by the current call, next to a link of an earlier call for a file that is
\* not in the current list.
C6_Witness ==
    /\ sync_pc = "done" /\ sync_only
    /\ dest0["a.jpg"] = Link(<<"/", "old", "a.jpg">>)
    /\ dest["a.jpg"] = Link(<<"/", "new", "a.jpg">>)
    /\ dest["b.jpg"] = Link(<<"/", "new", "b.jpg">>)
    /\ <<"/", "new", "b.jpg">> \notin Members

\* C7 (as stated): after a completed call on a destination only sync calls
\* have written to, there is no entry under the base name of a list entry
\* whose source does not exist (and whose base name no other file of the
\* list has).
C7_NoEntryForMissing ==
    (sync_pc = "done" /\ sync_only) =>
        \A t \in Members :
            (t \notin exists /\ \A u \in Members : Basename(u) = Basename(t) => u = t)
                => dest[Basename(t)] = Absent

\* C7 (amended): the iteration of a list entry whose source does not exist
\* raises nothing, leaves the destination and the count as they are and
\* goes on to the next entry.
C7_SkipStep ==
    [][(sync_pc = "loop" /\ pos <= Len(file_list)
            /\ AbsPath(file_list[pos]) \notin exists)
          => /\ dest' = dest
             /\ links_created' = links_created
             /\ sync_pc' = "loop"
             /\ pos' = pos + 1]_vars

\* A completed call that skipped its first entry, whose name was and is
\* taken by a link of an earlier call, and linked its second.
C7_Witness ==
    /\ sync_pc = "done" /\ sync_only
    /\ file_list = << <<"/", "new", "a.jpg">>, <<"/", "new", "b.jpg">> >>
    /\ <<"/", "new", "a.jpg">> \notin exists
    /\ dest0["a.jpg"] = Link(<<"/", "new", "a.jpg">>)
    /\ dest["a.jpg"] = dest0["a.jpg"]
    /\ dest["b.jpg"] = Link(<<"/", "new", "b.jpg">>)
    /\ links_created = 1

\* C8 (as stated): a completed call returns the number of entries of the
\* file list whose source exists.
C8_ReturnsCount ==
    sync_pc = "done" => sync_ret = <<Attempted>>

====
